---- MODULE Spec2Model ----
(***************************************************************************)
(* A model of utlis/Segmentation.py: the assembly of per-organ masks into  *)
(* one labelled volume (SegmentAssembleImageFilter.Execute), the split of  *)
(* a labelled volume into per-organ masks (SegmentSplitImageFilter), the   *)
(* pairwise overlap report (AnalyseOverlap) and the jpg slice importer     *)
(* (Jpg2niiConverter.OrganConvert).                                        *)
(*                                                                         *)
(* A volume is a function from voxel index to voxel value; the operations  *)
(* of the code are all voxel-wise, so the 3-D shape is flattened.  File    *)
(* names are strings, sliced and concatenated as the code slices them.     *)
(***************************************************************************)
EXTENDS Integers, Sequences, FiniteSets, TLC

\* ------------------------------------------------------------- bounds
\* Voxels of the reference image self.img (its flattened shape).
NVox == 2
\* Most files in the folder handed to the assembler.
MaxFiles == 2
\* Voxels of the volumes handed to the overlap analysis.
OvNVox == 211
\* Slices of the reference image of the slice importer, and most files in
\* the folder of slices.
NSlices == 2
MaxJpg == 3

Voxels == 0 .. (NVox - 1)

\* ------------------------------------------------------------- tables
\* SegmentAssembleImageFilter.OrganID in its declared key order; a Python
\* dict iterates in insertion order.
OrganIDItems ==
    << <<"Outline", 10>>, <<"Body", 10>>,
       <<"Skin", 11>>, <<"Muscle", 13>>,
       <<"Bone", 46>>, <<"Skeleton", 46>>, <<"Marrow", 47>>,
       <<"SCord", 65>>, <<"SpinalCore", 65>>, <<"Brain", 18>>, <<"Eyes", 22>>,
       <<"Lung", 33>>, <<"Heart", 26>>, <<"Breast", 19>>,
       <<"Intestine", 44>>, <<"Liver", 32>>, <<"Kidney", 28>>, <<"Stomach", 67>>,
       <<"ParotidGland", 43>>,
       <<"Bladder", 15>>, <<"Ovary", 86>>, <<"Spleen", 66>>, <<"Thyroid", 70>>,
       <<"Pancrease", 38>>, <<"GallBladder", 24>> >>

\* The keys of OrganID ("name in OrganID").
OrganKeys == { OrganIDItems[n][1] : n \in DOMAIN OrganIDItems }

\* OrganID[name]
OrganID == [ name \in OrganKeys |->
               OrganIDItems[CHOOSE n \in DOMAIN OrganIDItems : OrganIDItems[n][1] = name][2] ]

\* SegmentSplitImageFilter.StandardName in its declared key order.
StandardNameItems ==
    << <<10, "Body">>, <<11, "Skin">>, <<13, "Muscle">>, <<15, "Bladder">>, <<18, "Brain">>,
       <<19, "Breast">>, <<21, "Esophagus">>, <<22, "Eye">>, <<23, "Len">>, <<24, "GallBladder">>,
       <<26, "Heart">>, <<28, "Kidney">>, <<29, "Larynx">>, <<32, "Liver">>, <<33, "Lung">>,
       <<37, "OralCavity">>, <<38, "Pancreas">>, <<42, "Pituitary">>, <<43, "Parotid">>, <<44, "Intestine">>,
       <<46, "Bone">>, <<47, "Marrow">>, <<63, "TMJ">>, <<65, "SpinalCord">>, <<66, "Spleen">>,
       <<67, "Stomach">>, <<70, "Thyroid">>, <<73, "Trachea">>, <<75, "Cochlea">>, <<76, "BrainStem">>,
       <<77, "TemporalLobe">>, <<78, "OpticChiasm">>, <<79, "OpticalNerve">>, <<80, "Rectum">>, <<81, "Sigmoid">>,
       <<82, "Duodenum">>, <<86, "Ovary">> >>

StandardKeys == { StandardNameItems[n][1] : n \in DOMAIN StandardNameItems }

\* StandardName[ID]
StandardName == [ id \in StandardKeys |->
                    StandardNameItems[CHOOSE n \in DOMAIN StandardNameItems : StandardNameItems[n][1] = id][2] ]

\* ------------------------------------------------------------ helpers
\* fname[0:-4]: the name without its last four characters (empty when the
\* name has four characters or fewer).
Stem(fname) == IF Len(fname) > 4 THEN SubSeq(fname, 1, Len(fname) - 4) ELSE ""

\* array.astype(bool): non-zero is True.
AsBool(arr) == [ v \in DOMAIN arr |-> arr[v] # 0 ]

\* A bool used in arithmetic: True is 1, False is 0.
B2I(b) == IF b THEN 1 ELSE 0

\* np.zeros_like(sitk.GetArrayViewFromImage(self.img))
Zeros == [ v \in Voxels |-> 0 ]

\* sitk.Cast(image, sitk.sitkUInt8): the value kept to 8 bits.
CastUInt8(arr) == [ v \in DOMAIN arr |-> arr[v] % 256 ]

\* The foreground voxels of a volume.
Foreground(arr) == { v \in DOMAIN arr : arr[v] # 0 }

\* The output directory before anything is written.
NoFiles == [ p \in {} |-> Zeros ]

\* sitk.WriteImage(image, path) on the files `files`.
WriteImage(files, path, image) ==
    [ p \in (DOMAIN files) \cup {path} |-> IF p = path THEN image ELSE files[p] ]

\* ------------------------------------------------------------- state
VARIABLES
    pc,             \* position in the operation being run
    folder_organs,  \* self.folder_organs: file name -> mask volume
    fpath_save,     \* where Execute saves the assembled volume, or "None"
    seg,            \* Execute's label array
    seg_bool,       \* Execute's occupied array
    organ_idx,      \* position of the paint loop in OrganID (0: not started)
    disk,           \* files written: path -> volume
    fpath_seg,      \* self.fpath_seg of the splitter, or "None"
    folder_save,    \* where the splitter saves its masks, or "None"
    split_seg,      \* the splitter's label array
    id_idx,         \* position of the split loop in StandardName (0: not started)
    ov_folder,      \* the folder AnalyseOverlap reads: file name -> mask file
    ov_listing,     \* os.listdir of that folder, in the order it comes
    stop_organ_list,\* AnalyseOverlap's argument
    organs,         \* AnalyseOverlap's list of files
    ov_i,           \* position of the outer loop (from 1)
    ov_j,           \* position of the inner loop
    loaded,         \* the pairs of files read, in order
    printed,        \* the pairs reported, in order
    folder_jpg,     \* the folder of slices: file name -> type and content
    jpg_listing,    \* os.listdir of that folder, in the order it comes
    jpg_seg,        \* OrganConvert's array, one value per slice
    jpg_idx         \* position of the loop over the listing (0: not started)

asm_vars == << folder_organs, fpath_save, seg, seg_bool, organ_idx >>
split_vars == << fpath_seg, folder_save, split_seg, id_idx >>
ov_vars == << ov_folder, ov_listing, stop_organ_list, organs, ov_i, ov_j, loaded, printed >>
jpg_vars == << folder_jpg, jpg_listing, jpg_seg, jpg_idx >>
vars == << pc, asm_vars, split_vars, ov_vars, jpg_vars, disk >>

\* ------------------------------------------ SegmentAssembleImageFilter
\* Paint with the difference set forgotten: the organ's ID is added onto
\* whatever label the voxel holds.
PaintAdds(s, s_bool, organ_bool, id) ==
    [ v \in Voxels |-> s[v] + B2I(organ_bool[v]) * id ]

\* Paint with the wrong operand kept: the old labels survive only where the
\* new organ overlaps them.
PaintDropsOld(s, s_bool, organ_bool, id) ==
    [ v \in Voxels |->
        s[v] * B2I(s_bool[v] /\ organ_bool[v]) + B2I(organ_bool[v]) * id ]

\* Lines 186-187: the occupied voxels the new organ does not claim keep
\* their label, the organ's voxels get its ID.
Paint(s, s_bool, organ_bool, id) ==
    [ v \in Voxels |->
        LET seg_minus_organ == (s_bool[v] # (s_bool[v] /\ organ_bool[v]))
        IN  s[v] * B2I(seg_minus_organ) + B2I(organ_bool[v]) * id ]

\* The completeness check left out.
FnamesMissUnchecked(folder) == {}

\* Lines 167-168: the files whose name less four characters is no OrganID key.
FnamesMiss(folder) == { fname \in DOMAIN folder : Stem(fname) \notin OrganKeys }

\* Lines 162-164: the save path must be given.
AsmCheckPath ==
    /\ pc = "asm_start"
    /\ pc' = IF fpath_save = "None" THEN "asm_abort_path" ELSE "asm_validate"
    /\ UNCHANGED << asm_vars, split_vars, ov_vars, jpg_vars, disk >>

\* Lines 167-169: every file of the folder must be known to OrganID.
AsmValidate ==
    /\ pc = "asm_validate"
    /\ pc' = IF FnamesMiss(folder_organs) = {} THEN "asm_blank" ELSE "asm_abort_miss"
    /\ UNCHANGED << asm_vars, split_vars, ov_vars, jpg_vars, disk >>

\* Lines 172-176: the blank background, and the loop over OrganID begins.
AsmBlank ==
    /\ pc = "asm_blank"
    /\ seg' = Zeros
    /\ seg_bool' = AsBool(Zeros)
    /\ organ_idx' = 1
    /\ pc' = "asm_paint"
    /\ UNCHANGED << folder_organs, fpath_save, split_vars, ov_vars, jpg_vars, disk >>

\* Lines 177-188: one iteration of the loop, for the organ at organ_idx.
AsmPaintStep ==
    /\ pc = "asm_paint"
    /\ organ_idx <= Len(OrganIDItems)
    /\ LET organ_name == OrganIDItems[organ_idx][1]
           fname == organ_name \o ".nii"
       IN  IF fname \in DOMAIN folder_organs
           THEN LET organ_bool == AsBool(folder_organs[fname])
                    painted == Paint(seg, seg_bool, organ_bool, OrganID[organ_name])
                IN  /\ seg' = painted
                    /\ seg_bool' = AsBool(painted)
           ELSE UNCHANGED << seg, seg_bool >>
    /\ organ_idx' = organ_idx + 1
    /\ UNCHANGED << pc, folder_organs, fpath_save, split_vars, ov_vars, jpg_vars, disk >>

\* Lines 189-195: the loop is over; the volume is cast and written.
AsmWrite ==
    /\ pc = "asm_paint"
    /\ organ_idx > Len(OrganIDItems)
    /\ disk' = WriteImage(disk, fpath_save, CastUInt8(seg))
    /\ pc' = "asm_done"
    /\ UNCHANGED << asm_vars, split_vars, ov_vars, jpg_vars >>

\* --------------------------------------------- SegmentSplitImageFilter
\* SegmentSplitImageFilter.MultipleOrgans
MultipleOrgans ==
    [ id \in {10, 22, 18, 46} |->
        CASE id = 10 -> <<10, 11>>
          [] id = 22 -> <<22, 23>>
          [] id = 18 -> <<18, 76, 77>>
          [] id = 46 -> <<46, 47>> ]

\* The extraction with a comparison that is not exact.
ExtractAtLeast(arr, ID) == [ v \in DOMAIN arr |-> IF arr[v] >= ID THEN 255 ELSE 0 ]

\* Lines 227-229 and 251-253: a copy of the array with the voxels of label
\* ID set to 255 and every other voxel to 0.
ExtractLabel(arr, ID) == [ v \in DOMAIN arr |-> IF arr[v] = ID THEN 255 ELSE 0 ]

\* seg_organ_main += seg_organ, in place on the 8-bit arrays of a label
\* volume: the sum wraps at 256.
AddUInt8(a, b) == [ v \in DOMAIN a |-> (a[v] + b[v]) % 256 ]

\* Lines 225-230: the loop over the listed labels, from the n-th on.
RECURSIVE AddOrgans(_, _, _, _)
AddOrgans(arr, IDs, n, seg_organ_main) ==
    IF n > Len(IDs)
    THEN seg_organ_main
    ELSE AddOrgans(arr, IDs, n + 1, AddUInt8(seg_organ_main, ExtractLabel(arr, IDs[n])))

\* _AssembleMultipleOrgans(seg, ID_main)
AssembleMultipleOrgans(arr, ID_main) ==
    AddOrgans(arr, MultipleOrgans[ID_main], 1, [ v \in DOMAIN arr |-> 0 ])

\* The presence test on the whole array instead of on the label.
OccursAny(ID, arr) == \E v \in DOMAIN arr : arr[v] # 0

\* "ID in seg"
Occurs(ID, arr) == \E v \in DOMAIN arr : arr[v] = ID

\* Line 259: os.path.join(folder_save, str(ID) + '_' + StandardName[ID] + ".nii")
SplitPath(folder, ID) == folder \o "/" \o ToString(ID) \o "_" \o StandardName[ID] \o ".nii"

\* Lines 248-253: the mask saved for label ID.
SplitMask(arr, ID) ==
    IF ID \in DOMAIN MultipleOrgans
    THEN AssembleMultipleOrgans(arr, ID)
    ELSE ExtractLabel(arr, ID)

\* Lines 234-244: the folder to save to must be given; the labelled volume
\* is read and the loop over StandardName begins.
SplitOpen ==
    /\ pc = "split_start"
    /\ IF folder_save = "None"
       THEN /\ pc' = "split_abort_path"
            /\ UNCHANGED << split_seg, id_idx >>
       ELSE /\ split_seg' = disk[fpath_seg]
            /\ id_idx' = 1
            /\ pc' = "split_loop"
    /\ UNCHANGED << asm_vars, fpath_seg, folder_save, ov_vars, jpg_vars, disk >>

\* Lines 245-260: one iteration of the loop, for the label at id_idx.
SplitStep ==
    /\ pc = "split_loop"
    /\ id_idx <= Len(StandardNameItems)
    /\ LET ID == StandardNameItems[id_idx][1]
       IN  IF Occurs(ID, split_seg)
           THEN disk' = WriteImage(disk, SplitPath(folder_save, ID),
                                   CastUInt8(SplitMask(split_seg, ID)))
           ELSE UNCHANGED disk
    /\ id_idx' = id_idx + 1
    /\ UNCHANGED << pc, asm_vars, fpath_seg, folder_save, split_seg, ov_vars, jpg_vars >>

\* Line 261: the loop is over.
SplitClose ==
    /\ pc = "split_loop"
    /\ id_idx > Len(StandardNameItems)
    /\ pc' = "split_done"
    /\ UNCHANGED << asm_vars, split_vars, ov_vars, jpg_vars, disk >>

\* The splitter is pointed at the volume the assembler saved and run.
SplitAssembled ==
    /\ pc = "asm_done"
    /\ fpath_seg' = fpath_save
    /\ folder_save' = "split"
    /\ pc' = "split_start"
    /\ UNCHANGED << asm_vars, split_seg, id_idx, ov_vars, jpg_vars, disk >>

\* ------------------------------------------------------ AnalyseOverlap
OvVoxels == 0 .. (OvNVox - 1)

\* sitk.GetArrayFromImage(sitk.ReadImage(path)) of a mask file.  A mask
\* file of the analysed folder is stored as the run <<first, end>> of its
\* foreground voxels; reading it gives the volume.
ReadMask(file) == [ v \in OvVoxels |-> IF file[1] <= v /\ v < file[2] THEN 255 ELSE 0 ]

\* np.sum of a bool array.
SumBool(arr) == Cardinality({ v \in DOMAIN arr : arr[v] })

\* img_i * img_j on bool arrays.
MulBool(a, b) == [ v \in DOMAIN a |-> a[v] /\ b[v] ]

\* Rounding of num / den to the next integer, towards zero.
RoundDown(num, den) == num \div den

\* np.round of num / den to an integer: to the nearest, a tie to the even one.
RoundHalfEven(num, den) ==
    LET q == num \div den
        r == num % den
    IN  IF 2 * r > den THEN q + 1
        ELSE IF 2 * r < den THEN q
        ELSE IF q % 2 = 0 THEN q ELSE q + 1

\* Lines 152-153 and the test of line 155 on one percentage:
\* (overlap / n * 100).round(decimals=1) >= 1, the rounded value counted
\* in tenths.  With n = 0 the quotient is nan and the test is False.
PercentAtLeastOne(overlap, n) ==
    IF n = 0 THEN FALSE ELSE RoundHalfEven(overlap * 1000, n) >= 10

\* Line 155: the pair is reported.
Reported(overlap, n_i, n_j) ==
    overlap # 0 /\ (PercentAtLeastOne(overlap, n_i) \/ PercentAtLeastOne(overlap, n_j))

\* [organ for organ in listing if organ not in stop], from the n-th on.
RECURSIVE NotStopped(_, _, _)
NotStopped(listing, stop, n) ==
    IF n > Len(listing)
    THEN << >>
    ELSE IF \E x \in DOMAIN stop : stop[x] = listing[n]
         THEN NotStopped(listing, stop, n + 1)
         ELSE << listing[n] >> \o NotStopped(listing, stop, n + 1)

\* Lines 133-139: the files of the folder less the stop list (a stop list
\* that is not given is the empty one); the loops begin.
OvList ==
    /\ pc = "ov_start"
    /\ organs' = NotStopped(ov_listing, stop_organ_list, 1)
    /\ ov_i' = 1
    /\ ov_j' = 2
    /\ pc' = "ov_loop"
    /\ UNCHANGED << asm_vars, split_vars, jpg_vars, disk,
                    ov_folder, ov_listing, stop_organ_list, loaded, printed >>

\* Lines 140-157: one iteration of the inner loop, for the files at ov_i
\* and ov_j; then the next ov_j, or the next ov_i and the first ov_j after it.
\* (Each local of the code is bound once, as the code computes it once.)
OvPair ==
    /\ pc = "ov_loop"
    /\ ov_j <= Len(organs)
    /\ \E img_i \in { AsBool(ReadMask(ov_folder[organs[ov_i]])) },
          img_j \in { AsBool(ReadMask(ov_folder[organs[ov_j]])) } :
          \E n_i \in { SumBool(img_i) },
             n_j \in { SumBool(img_j) },
             overlap \in { SumBool(MulBool(img_i, img_j)) } :
             LET organ_i == Stem(organs[ov_i])
                 organ_j == Stem(organs[ov_j])
             IN  /\ loaded' = Append(loaded, << organs[ov_i], organs[ov_j] >>)
                 /\ printed' =
                       IF Reported(overlap, n_i, n_j)
                       THEN Append(printed, [ organ_i |-> organ_i, organ_j |-> organ_j,
                                              overlap |-> overlap, n_i |-> n_i, n_j |-> n_j ])
                       ELSE printed
    /\ IF ov_j < Len(organs)
       THEN /\ ov_j' = ov_j + 1
            /\ ov_i' = ov_i
       ELSE /\ ov_i' = ov_i + 1
            /\ ov_j' = ov_i + 2
    /\ UNCHANGED << pc, asm_vars, split_vars, jpg_vars, disk,
                    ov_folder, ov_listing, stop_organ_list, organs >>

\* Line 158: the loops are over.
OvReturn ==
    /\ pc = "ov_loop"
    /\ ov_j > Len(organs)
    /\ pc' = "ov_done"
    /\ UNCHANGED << asm_vars, split_vars, ov_vars, jpg_vars, disk >>

\* --------------------------------------------------- Jpg2niiConverter
\* The binarisation threshold OrganConvert is called with (its default).
threshold == 128

Slices == 0 .. (NSlices - 1)

\* The value of one character as a decimal digit, -1 if it is none.
DigitOf(c) ==
    CASE c = "0" -> 0 [] c = "1" -> 1 [] c = "2" -> 2 [] c = "3" -> 3 [] c = "4" -> 4
      [] c = "5" -> 5 [] c = "6" -> 6 [] c = "7" -> 7 [] c = "8" -> 8 [] c = "9" -> 9
      [] OTHER -> -1

\* int(text) of a text of digits, read from the left with `acc` so far;
\* -1 stands for the ValueError of a text that is empty or has another
\* character.
RECURSIVE ParseInt(_, _, _)
ParseInt(text, n, acc) ==
    IF n > Len(text)
    THEN IF Len(text) = 0 THEN -1 ELSE acc
    ELSE IF DigitOf(SubSeq(text, n, n)) < 0
         THEN -1
         ELSE ParseInt(text, n + 1, 10 * acc + DigitOf(SubSeq(text, n, n)))

\* GetImageLayerByName: int(fname[-8:-4]).
GetImageLayerByName(fname) ==
    LET first == IF Len(fname) > 8 THEN Len(fname) - 7 ELSE 1
        text == IF Len(fname) > 4 THEN SubSeq(fname, first, Len(fname) - 4) ELSE ""
    IN  ParseInt(text, 1, 0)

\* Lines 91-92: seg[seg > threshold] = 255, then seg[seg <= threshold] = 0.
Binarize(arr) ==
    LET high == [ z \in DOMAIN arr |-> IF arr[z] > threshold THEN 255 ELSE arr[z] ]
    IN  [ z \in DOMAIN arr |-> IF high[z] <= threshold THEN 0 ELSE high[z] ]

\* np.flip(seg): the array reversed.
Flip(arr) == [ z \in DOMAIN arr |-> arr[(NSlices - 1) - z] ]

\* Line 80: the blank background; the loop over the listing begins.
JpgBlank ==
    /\ pc = "jpg_start"
    /\ jpg_seg' = [ z \in Slices |-> 0 ]
    /\ jpg_idx' = 1
    /\ pc' = "jpg_loop"
    /\ UNCHANGED << asm_vars, split_vars, ov_vars, folder_jpg, jpg_listing, disk >>

\* Lines 82-88: one iteration of the loop, for the file at jpg_idx: its type
\* is checked, then its slice is read and stored at its layer.
JpgSlice ==
    /\ pc = "jpg_loop"
    /\ jpg_idx <= Len(jpg_listing)
    /\ LET fname == jpg_listing[jpg_idx]
           kind == folder_jpg[fname].kind
           z == GetImageLayerByName(fname)
       IN  IF kind # "jpg"
           THEN /\ pc' = "jpg_abort_type"
                /\ UNCHANGED << jpg_seg, jpg_idx >>
           ELSE IF z \notin Slices
                THEN /\ pc' = "jpg_abort_layer"
                     /\ UNCHANGED << jpg_seg, jpg_idx >>
                ELSE /\ jpg_seg' = [ jpg_seg EXCEPT ![z] = folder_jpg[fname].gray ]
                     /\ jpg_idx' = jpg_idx + 1
                     /\ pc' = pc
    /\ UNCHANGED << asm_vars, split_vars, ov_vars, folder_jpg, jpg_listing, disk >>

\* Lines 91-104: the loop is over; the array is binarised, flipped, cast
\* and written.
JpgWrite ==
    /\ pc = "jpg_loop"
    /\ jpg_idx > Len(jpg_listing)
    /\ jpg_seg' = Binarize(jpg_seg)
    /\ disk' = WriteImage(disk, fpath_save, CastUInt8(Flip(Binarize(jpg_seg))))
    /\ pc' = "jpg_done"
    /\ UNCHANGED << folder_organs, seg, seg_bool, organ_idx, fpath_save,
                    split_vars, ov_vars, folder_jpg, jpg_listing, jpg_idx >>

\* ------------------------------------------------------ specifications
\* The mask files a folder may hold: binary volumes shaped like self.img.
MaskVolumes == [ Voxels -> {0, 255} ]

\* The state of an operation that is not run.
AsmIdle ==
    /\ folder_organs = NoFiles
    /\ fpath_save = "None"
    /\ seg = Zeros
    /\ seg_bool = AsBool(Zeros)
    /\ organ_idx = 0

SplitIdle ==
    /\ fpath_seg = "None"
    /\ folder_save = "None"
    /\ split_seg = Zeros
    /\ id_idx = 0

OvIdle ==
    /\ ov_folder = NoFiles
    /\ ov_listing = << >>
    /\ stop_organ_list = << >>
    /\ organs = << >>
    /\ ov_i = 0
    /\ ov_j = 0
    /\ loaded = << >>
    /\ printed = << >>

JpgIdle ==
    /\ folder_jpg = NoFiles
    /\ jpg_listing = << >>
    /\ jpg_seg = << >>
    /\ jpg_idx = 0

\* The file names the folders are drawn from: organ masks under their
\* OrganID names, one under another extension, one of no known organ.
AsmFileNames == { "Body.nii", "Skin.nii", "SCord.nii", "SpinalCore.nii", "Lung.mha", "Tumor.nii" }

InitAssemble ==
    /\ pc = "asm_start"
    /\ \E S \in SUBSET AsmFileNames :
          /\ Cardinality(S) <= MaxFiles
          /\ folder_organs \in [ S -> MaskVolumes ]
    /\ fpath_save \in { "None", "seg.nii" }
    /\ seg = Zeros
    /\ seg_bool = AsBool(Zeros)
    /\ organ_idx = 0
    /\ disk = NoFiles
    /\ SplitIdle
    /\ OvIdle
    /\ JpgIdle

NextAssemble ==
    \/ AsmCheckPath
    \/ AsmValidate
    \/ AsmBlank
    \/ AsmPaintStep
    \/ AsmWrite
    \/ SplitAssembled
    \/ SplitOpen
    \/ SplitStep
    \/ SplitClose

SpecAssemble == InitAssemble /\ [][NextAssemble]_vars

\* The labels a volume handed to the splitter may hold: background, the
\* labels MultipleOrgans names, two single organs, and one label that
\* StandardName does not know.
SplitLabels == { 0, 10, 11, 22, 23, 18, 76, 77, 46, 47, 33, 65, 99 }

InitSplit ==
    /\ pc = "split_start"
    /\ fpath_seg = "seg.nii"
    /\ folder_save \in { "None", "split" }
    /\ \E vol \in [ Voxels -> SplitLabels ] : disk = WriteImage(NoFiles, "seg.nii", vol)
    /\ split_seg = Zeros
    /\ id_idx = 0
    /\ AsmIdle
    /\ OvIdle
    /\ JpgIdle

NextSplit ==
    \/ SplitOpen
    \/ SplitStep
    \/ SplitClose

SpecSplit == InitSplit /\ [][NextSplit]_vars

\* The mask files the analysed folder may hold: the empty mask, the masks
\* from the first voxel up to a cut, and the masks from a cut to the last
\* voxel.  The cuts make masks that share one voxel out of 101 and one out
\* of 106, and masks that share none or many.
OvCuts == { 100, 101, 105, 106 }
OvMasks ==
    { << 0, 0 >> } \cup { << 0, b >> : b \in OvCuts \cup { OvNVox } }
                  \cup { << a, OvNVox >> : a \in OvCuts }

OvFileNames == { "Body.nii", "Lung.nii", "Skin.nii" }

\* The orders in which a folder's files can be listed.
Listings(S) ==
    { l \in [ 1 .. Cardinality(S) -> S ] : \A x, y \in DOMAIN l : x # y => l[x] # l[y] }

InitOverlap ==
    /\ pc = "ov_start"
    /\ \E S \in SUBSET OvFileNames :
          /\ ov_folder \in [ S -> OvMasks ]
          /\ ov_listing \in Listings(S)
    /\ stop_organ_list \in { << >>, << "Body" >>, << "Body.nii" >> }
    /\ organs = << >>
    /\ ov_i = 0
    /\ ov_j = 0
    /\ loaded = << >>
    /\ printed = << >>
    /\ disk = NoFiles
    /\ AsmIdle
    /\ SplitIdle
    /\ JpgIdle

NextOverlap ==
    \/ OvList
    \/ OvPair
    \/ OvReturn

SpecOverlap == InitOverlap /\ [][NextOverlap]_vars

\* The files a folder of slices may hold: slices named by their layer, one
\* of them beyond the reference image, and a file named otherwise; each of
\* a type filetype.guess finds (jpg, png, or none) and, as a slice, of one
\* gray value below or above the threshold.
JpgFileNames == { "organ_0000.jpg", "organ_0001.jpg", "organ_0002.jpg", "cover.jpg" }
JpgFiles == [ kind : { "jpg", "png", "None" }, gray : { 100, 200 } ]

InitConvert ==
    /\ pc = "jpg_start"
    /\ \E S \in SUBSET JpgFileNames :
          /\ Cardinality(S) <= MaxJpg
          /\ folder_jpg \in [ S -> JpgFiles ]
          /\ jpg_listing \in Listings(S)
    /\ jpg_seg = << >>
    /\ jpg_idx = 0
    /\ folder_organs = NoFiles
    /\ fpath_save = "organ.nii"
    /\ seg = Zeros
    /\ seg_bool = AsBool(Zeros)
    /\ organ_idx = 0
    /\ disk = NoFiles
    /\ SplitIdle
    /\ OvIdle

NextConvert ==
    \/ JpgBlank
    \/ JpgSlice
    \/ JpgWrite

SpecConvert == InitConvert /\ [][NextConvert]_vars

\* ============================================================== claims
\* The loop positions (indices into OrganID) before position n whose file
\* "<name>.nii" is in the folder: the organs painted so far.
PaintedBefore(n) ==
    { m \in DOMAIN OrganIDItems :
        m < n /\ (OrganIDItems[m][1] \o ".nii") \in DOMAIN folder_organs }

PaintedAll == PaintedBefore(Len(OrganIDItems) + 1)

\* The foreground of the mask painted at loop position m, and its ID.
MaskAt(m) == Foreground(folder_organs[OrganIDItems[m][1] \o ".nii"])
IDAt(m) == OrganIDItems[m][2]

\* The label later-wins gives voxel v when the positions P have been painted.
LastLabel(v, P) ==
    LET covering == { m \in P : v \in MaskAt(m) }
    IN  IF covering = {} THEN 0
        ELSE IDAt(CHOOSE m \in covering : \A q \in covering : q <= m)

\* The assembler has saved its volume.
Assembled == fpath_save \in DOMAIN disk

\* C1: later-wins.  After every paint step each voxel holds the ID of the
\* last organ in OrganID order, among those painted so far, whose mask is
\* foreground there, and 0 if none covers it; the saved volume holds the
\* same over all painted organs.  In particular, where an earlier mask A and
\* a later mask B are both foreground the voxel holds the ID of B or of an
\* organ painted after B, never a label left over from A.
C1_LaterWins ==
    /\ pc = "asm_paint" =>
          /\ \A v \in Voxels : seg[v] = LastLabel(v, PaintedBefore(organ_idx))
          /\ \A a, b \in PaintedBefore(organ_idx) :
                a < b => \A v \in MaskAt(a) \cap MaskAt(b) :
                    \E m \in PaintedBefore(organ_idx) :
                        m >= b /\ v \in MaskAt(m) /\ seg[v] = IDAt(m)
    /\ Assembled =>
          \A v \in Voxels : disk[fpath_save][v] = LastLabel(v, PaintedAll)

\* Two overlapping masks with different IDs have both been painted.
C1_Witness ==
    /\ pc = "asm_paint"
    /\ \E a, b \in PaintedBefore(organ_idx) :
          /\ a < b
          /\ IDAt(a) # IDAt(b)
          /\ MaskAt(a) \cap MaskAt(b) # {}
          /\ MaskAt(a) \ MaskAt(b) # {}

\* The mask the splitter saved for label ID, as a path.
SavedPath(ID) == SplitPath(folder_save, ID)

\* C2 as stated: after the splitter has run on the assembled volume, every
\* painted organ whose ID is no key of MultipleOrgans (and is the ID of no
\* other painted file) has its mask back: the saved mask's foreground is the
\* input mask's foreground, and no mask is saved only if the input was empty.
C2_RoundTrip ==
    (pc = "split_done" /\ Assembled) =>
        \A m \in PaintedAll :
            (/\ IDAt(m) \notin DOMAIN MultipleOrgans
             /\ \A q \in PaintedAll \ {m} : IDAt(q) # IDAt(m)) =>
                IF SavedPath(IDAt(m)) \in DOMAIN disk
                THEN Foreground(disk[SavedPath(IDAt(m))]) = MaskAt(m)
                ELSE MaskAt(m) = {}

\* C2 amended: the round trip gives a painted organ's mask back exactly when
\* its ID is no key of MultipleOrgans, the mask is not empty, no mask painted
\* later overlaps it and no other painted file has its ID.  In general the
\* mask saved for such an ID holds the voxels the ID still owns under
\* later-wins, and none is saved when it owns no voxel.
C2_RoundTripAmended ==
    (pc = "split_done" /\ Assembled) =>
        \A m \in PaintedAll :
            IDAt(m) \notin DOMAIN MultipleOrgans =>
                /\ (/\ MaskAt(m) # {}
                    /\ \A q \in PaintedAll : q > m => MaskAt(q) \cap MaskAt(m) = {}
                    /\ \A q \in PaintedAll \ {m} : IDAt(q) # IDAt(m)) =>
                        /\ SavedPath(IDAt(m)) \in DOMAIN disk
                        /\ disk[SavedPath(IDAt(m))] =
                              [ v \in Voxels |-> IF v \in MaskAt(m) THEN 255 ELSE 0 ]
                /\ LET owned == { v \in Voxels : LastLabel(v, PaintedAll) = IDAt(m) }
                   IN  IF owned = {}
                       THEN SavedPath(IDAt(m)) \notin DOMAIN disk
                       ELSE /\ SavedPath(IDAt(m)) \in DOMAIN disk
                            /\ Foreground(disk[SavedPath(IDAt(m))]) = owned

\* The round trip has run with two painted masks, the first of them of a
\* single-label organ, not empty and not overlapped by the second.
C2_Witness ==
    /\ pc = "split_done"
    /\ Assembled
    /\ \E m, q \in PaintedAll :
          /\ m < q
          /\ IDAt(m) \notin DOMAIN MultipleOrgans
          /\ IDAt(q) # IDAt(m)
          /\ MaskAt(m) # {}
          /\ MaskAt(q) # {}
          /\ MaskAt(m) \cap MaskAt(q) = {}

\* The orders in which the organs at positions P can be painted.
PaintOrders(P) ==
    { order \in [ 1 .. Cardinality(P) -> P ] :
        \A x, y \in DOMAIN order : x # y => order[x] # order[y] }

\* The paint loop run over the positions in `order`, from the n-th on.
RECURSIVE PaintInOrder(_, _, _)
PaintInOrder(order, n, s) ==
    IF n > Len(order)
    THEN s
    ELSE PaintInOrder(order, n + 1,
            Paint(s, AsBool(s),
                  AsBool(folder_organs[OrganIDItems[order[n]][1] \o ".nii"]),
                  IDAt(order[n])))

PaintedDisjoint ==
    \A a, b \in PaintedAll : a # b => MaskAt(a) \cap MaskAt(b) = {}

\* C3: when the painted masks are pairwise disjoint, the assembled volume is
\* the union of their labels (each voxel holds the ID of the one mask that
\* covers it, else 0), and painting them in any other order gives the same
\* volume.
C3_OrderIndependent ==
    (Assembled /\ PaintedDisjoint) =>
        /\ \A v \in Voxels :
              /\ (\A m \in PaintedAll : v \notin MaskAt(m)) => disk[fpath_save][v] = 0
              /\ \A m \in PaintedAll : v \in MaskAt(m) => disk[fpath_save][v] = IDAt(m)
        /\ \A order \in PaintOrders(PaintedAll) :
              CastUInt8(PaintInOrder(order, 1, Zeros)) = disk[fpath_save]

\* Two disjoint non-empty masks with different IDs have been assembled.
C3_Witness ==
    /\ Assembled
    /\ PaintedDisjoint
    /\ \E a, b \in PaintedAll :
          a # b /\ IDAt(a) # IDAt(b) /\ MaskAt(a) # {} /\ MaskAt(b) # {}

\* A file of the folder whose name less four characters is no OrganID key.
HasUnknownFile == \E fname \in DOMAIN folder_organs : Stem(fname) \notin OrganKeys

\* C4: with a file of an unknown organ in the folder, Execute never reaches
\* the paint loop and writes nothing: it is stopped at the completeness
\* check (or before it, at the path check).
C4_ValidationFirst ==
    HasUnknownFile =>
        /\ pc \in { "asm_start", "asm_validate", "asm_abort_path", "asm_abort_miss" }
        /\ organ_idx = 0
        /\ seg = Zeros
        /\ disk = NoFiles

\* Execute has stopped at the completeness check of a folder that also
\* holds a known organ's mask.
C4_Witness ==
    /\ pc = "asm_abort_miss"
    /\ \E fname \in DOMAIN folder_organs :
          Stem(fname) \in OrganKeys /\ Foreground(folder_organs[fname]) # {}

\* C10 as stated: once a folder has passed the completeness check and been
\* assembled, every file of it was painted, so the foreground voxels of
\* every input mask are non-zero in the saved volume.
C10_NoSilentSkip ==
    Assembled =>
        \A fname \in DOMAIN folder_organs :
            \A v \in Foreground(folder_organs[fname]) : disk[fpath_save][v] # 0

\* The labelled volume the splitter was given.
SplitInput == disk[fpath_seg]

\* The labels a sequence lists.
Listed(IDs) == { IDs[n] : n \in DOMAIN IDs }

\* C6: the mask saved for a key of MultipleOrgans is 255 exactly on the
\* voxels whose label is one of the labels listed for the key, and 0
\* elsewhere.
C6_CombinedSplit ==
    pc \in { "split_loop", "split_done" } =>
        \A ID \in DOMAIN MultipleOrgans :
            SavedPath(ID) \in DOMAIN disk =>
                \A v \in Voxels :
                    disk[SavedPath(ID)][v] =
                        IF SplitInput[v] \in Listed(MultipleOrgans[ID]) THEN 255 ELSE 0

\* A combined mask has been saved from a volume that holds the key's own
\* label and another of its listed labels.
C6_Witness ==
    /\ pc = "split_done"
    /\ \E ID \in DOMAIN MultipleOrgans :
          /\ SavedPath(ID) \in DOMAIN disk
          /\ \E v, w \in Voxels :
                /\ SplitInput[v] = ID
                /\ SplitInput[w] \in Listed(MultipleOrgans[ID]) \ {ID}

\* C7: when the splitter is done, a mask is saved for a StandardName label
\* exactly if the label itself occurs in the volume; the splitter saves
\* nothing else, never an empty mask, and nothing for a key of
\* MultipleOrgans none of whose listed labels occurs.
C7_EmissionRule ==
    /\ pc \in { "split_loop", "split_done" } =>
          /\ \A p \in DOMAIN disk \ {fpath_seg} :
                /\ \E ID \in StandardKeys : p = SavedPath(ID)
                /\ Foreground(disk[p]) # {}
          /\ \A ID \in StandardKeys :
                SavedPath(ID) \in DOMAIN disk => \E v \in Voxels : SplitInput[v] = ID
    /\ pc = "split_done" =>
          /\ \A ID \in StandardKeys :
                (\E v \in Voxels : SplitInput[v] = ID) => SavedPath(ID) \in DOMAIN disk
          /\ \A ID \in DOMAIN MultipleOrgans :
                (\A v \in Voxels : SplitInput[v] \notin Listed(MultipleOrgans[ID]))
                    => SavedPath(ID) \notin DOMAIN disk

\* The splitter is done with a volume that holds a label listed under a key
\* of MultipleOrgans without the key itself: a mask is saved for the label,
\* none for the key.
C7_Witness ==
    /\ pc = "split_done"
    /\ SavedPath(11) \in DOMAIN disk
    /\ SavedPath(10) \notin DOMAIN disk
    /\ \E v \in Voxels : SplitInput[v] = 99

\* The foreground voxel count of a mask file of the analysed folder, and the
\* count of voxels two of them share, from the runs themselves.
RunCount(file) == file[2] - file[1]
RunOverlap(f, g) ==
    LET first == IF f[1] >= g[1] THEN f[1] ELSE g[1]
        end == IF f[2] <= g[2] THEN f[2] ELSE g[2]
    IN  IF end > first THEN end - first ELSE 0

\* The files the stop-list filter of line 137 leaves: those whose file name
\* is not an entry of the stop list.
Kept ==
    { ov_listing[x] : x \in DOMAIN ov_listing }
        \ { stop_organ_list[y] : y \in DOMAIN stop_organ_list }

\* Every unordered pair of kept files has been read exactly once, and
\* nothing else has.
EachPairOnce ==
    /\ \A x \in DOMAIN loaded :
          loaded[x][1] \in Kept /\ loaded[x][2] \in Kept /\ loaded[x][1] # loaded[x][2]
    /\ \A f, g \in Kept :
          f # g => Cardinality({ x \in DOMAIN loaded :
                                  { loaded[x][1], loaded[x][2] } = { f, g } }) = 1

\* The unordered pairs of organ names reported.
PrintedPairs == { { printed[x].organ_i, printed[x].organ_j } : x \in DOMAIN printed }

\* Intersection at least 1% of the file's voxel count.
OnePercent(f, g) == 100 * RunOverlap(f, g) >= RunCount(f)

\* Intersection at least 0.95% of the file's voxel count: the percentage
\* that rounds to 1.0 or more at one decimal.
RoundsToOnePercent(f, g) == 2000 * RunOverlap(f, g) >= 19 * RunCount(f)

\* The stop list names no file of the folder, neither by its file name nor
\* by its organ name: the filter removes nothing under either reading.
StopListIdle ==
    \A x \in DOMAIN ov_listing : \A y \in DOMAIN stop_organ_list :
        stop_organ_list[y] # ov_listing[x] /\ stop_organ_list[y] # Stem(ov_listing[x])

\* C8 as stated, on the folders whose files the stop list leaves alone:
\* AnalyseOverlap evaluates every unordered pair of organs exactly once,
\* and reports a pair if and only if the intersection is non-zero and at
\* least 1% of one of the two voxel counts.
C8_ReportingRule ==
    (pc = "ov_done" /\ StopListIdle) =>
        /\ EachPairOnce
        /\ PrintedPairs =
              { { Stem(c[1]), Stem(c[2]) } : c \in
                  { c \in Kept \X Kept :
                      /\ c[1] # c[2]
                      /\ RunOverlap(ov_folder[c[1]], ov_folder[c[2]]) # 0
                      /\ (OnePercent(ov_folder[c[1]], ov_folder[c[2]])
                            \/ OnePercent(ov_folder[c[2]], ov_folder[c[1]])) } }

\* C8 amended: every unordered pair of the files the stop list leaves is
\* evaluated exactly once; a pair is reported, once, if and only if the
\* intersection is non-zero and its percentage of one of the two voxel
\* counts, rounded to one decimal, is 1 or more, that is the intersection is
\* at least 0.95% of one of them.  So no pair is reported when the masks are
\* pairwise disjoint, and a pair whose intersection is at least 1% of either
\* voxel count is always reported.
C8_ReportingRuleAmended ==
    pc = "ov_done" =>
        LET hit == { c \in Kept \X Kept :
                       /\ c[1] # c[2]
                       /\ RunOverlap(ov_folder[c[1]], ov_folder[c[2]]) # 0
                       /\ (RoundsToOnePercent(ov_folder[c[1]], ov_folder[c[2]])
                             \/ RoundsToOnePercent(ov_folder[c[2]], ov_folder[c[1]])) }
        IN  /\ EachPairOnce
            /\ PrintedPairs = { { Stem(c[1]), Stem(c[2]) } : c \in hit }
            /\ 2 * Len(printed) = Cardinality(hit)
            /\ (\A f, g \in Kept : f # g => RunOverlap(ov_folder[f], ov_folder[g]) = 0)
                  => printed = << >>
            /\ \A f, g \in Kept :
                  (/\ f # g
                   /\ RunOverlap(ov_folder[f], ov_folder[g]) # 0
                   /\ OnePercent(ov_folder[f], ov_folder[g]))
                      => { Stem(f), Stem(g) } \in PrintedPairs

\* Three files have been compared pair by pair; one pair was reported whose
\* intersection is below 1% of both voxel counts, and one pair was not
\* reported.
C8_Witness ==
    /\ pc = "ov_done"
    /\ Len(loaded) = 3
    /\ \E x \in DOMAIN printed :
          /\ printed[x].overlap # 0
          /\ 100 * printed[x].overlap < printed[x].n_i
          /\ 100 * printed[x].overlap < printed[x].n_j
    /\ \E x \in DOMAIN loaded :
          { Stem(loaded[x][1]), Stem(loaded[x][2]) } \notin PrintedPairs

\* C9 as stated: no organ whose name (the file name less its extension) is
\* in the stop list is read, compared or reported.
C9_StopListExcludes ==
    \A y \in DOMAIN stop_organ_list :
        /\ \A x \in DOMAIN loaded :
              Stem(loaded[x][1]) # stop_organ_list[y] /\ Stem(loaded[x][2]) # stop_organ_list[y]
        /\ \A x \in DOMAIN printed :
              printed[x].organ_i # stop_organ_list[y] /\ printed[x].organ_j # stop_organ_list[y]

\* C5 as stated: when OrganConvert stops at a file that is not a jpg, no
\* slice has been written into its array: the array is still blank.
C5_AbortBeforeAnySlice ==
    pc = "jpg_abort_type" => jpg_seg = [ z \in Slices |-> 0 ]

====
